---------------------------- MODULE Spec2Model ----------------------------
(***************************************************************************)
(* arris-scraper: event-log and status acquisition (fetch.py), the events *)
(* and status commands (cli.py) and their sinks (loki.py, influxdb.py).    *)
(*                                                                         *)
(* A timestamp is an integer: seconds since 1970-01-01T00:00:00 UTC.       *)
(* An Event is a record with the four dataclass fields timestamp,          *)
(* event_id, level, description.  Events of a parsed log carry one more    *)
(* field, row: the identity of the Event object (the table row it was      *)
(* built from).  The program never reads row: dataclass equality is        *)
(* equality of the four fields (Ev), and the snapshot file stores only     *)
(* the four fields.                                                        *)
(***************************************************************************)
EXTENDS Integers, Sequences, FiniteSets, TLC

VARIABLES
    local_tz,       \* ArrisFetch.local_tz, as the zone's UTC offset in seconds
    modemLog,       \* the event table the modem serves, oldest row first
    nextRow,        \* identity of the next row the modem will log
    logged,         \* rows the modem has logged since the poller's first run
    snapshotFile,   \* the snapshot file on disk
    polls,          \* number of polls (runs of a command) made
    lastDelta,      \* the delta argument of the last get_events call
    lastEvents,     \* the repaired log parsed by the last get_events call
    lastNew,        \* the list the last get_events call returned
    allDelta,       \* every get_events call so far had delta=True
    reportCount,    \* row -> number of calls that returned it (capped at 2)
    fetchedBefore,  \* rows that were in the repaired log of a call before the last
    statusPage,     \* the tables of the status page the modem serves
    lastStatus,     \* the Status the last get_status call returned
    lokiSink,       \* the lists handed to LokiExporter.export, oldest first
    influxSink,     \* the points written by InfluxExporter.export_status
    lastRun,        \* the last poll: command, how its fetch ended, Loki's
                    \* answer to its push, how the command ended
    fn,             \* pure-function harness: the function applied ("none" before)
    arg_events,     \* harness: the events argument
    arg_snapshot,   \* harness: the snapshot argument
    arg_size,       \* harness: the sanpshot_size argument
    result          \* harness: the value returned / the bytes written

sysVars == <<local_tz, modemLog, nextRow, logged, snapshotFile, polls, lastDelta,
             lastEvents, lastNew, allDelta, reportCount, fetchedBefore>>
cmdVars == <<statusPage, lastStatus, lokiSink, influxSink, lastRun>>
fnVars == <<fn, arg_events, arg_snapshot, arg_size, result>>
vars == <<sysVars, cmdVars, fnVars>>

----------------------------------------------------------------------------
(* Program constants *)

\* window=min(5, len(snapshot))
Window == 5

\* sanpshot_size=20, the default every caller uses
sanpshot_size == 20

----------------------------------------------------------------------------
(* Bounds of the model *)

\* rows the modem's event table holds before the oldest rolls off
LogCapacity == 6
\* rows the modem logs after the poller's first run
MaxAppend == 2
\* get_events calls in one behaviour
MaxPolls == 2
\* longest log handed to _fix_timestamp by the harness
MaxFixLen == 4
\* longest fetched log handed to _find_new_entries by the harness
MaxFetchedLen == 7
\* longest snapshot handed to _find_new_entries by the harness
MaxSnapshotLen == 6
\* longest log handed to _save_snapshot by the harness
MaxSaveLen == 4
\* largest cap handed to _save_snapshot by the harness
MaxSaveCap == 5
\* most elements of a JSON array handed to _load_snapshot by the harness
MaxFileLen == 3
\* most tables on the status page
MaxTables == 5

\* row identities in one behaviour
MaxRows == LogCapacity + MaxAppend

----------------------------------------------------------------------------
(* Python list helpers *)

Min(a, b) == IF a <= b THEN a ELSE b

\* s[k:] for k >= 0
PyFrom(s, k) == SubSeq(s, k + 1, Len(s))

\* s[-n:] for n >= 0.  -0 is 0, so s[-0:] is the whole list; a start before
\* the beginning of the list is clamped to it.
PyLast(s, n) ==
    IF n = 0 \/ n >= Len(s) THEN s ELSE SubSeq(s, Len(s) - n + 1, Len(s))

\* s[i:i+n] for 0 <= i, clamped to the end of the list
PySlice(s, i, n) == SubSeq(s, i + 1, Min(i + n, Len(s)))

\* the list without its element at (1-based) position p
RemoveAt(s, p) == SubSeq(s, 1, p - 1) \o SubSeq(s, p + 1, Len(s))

RECURSIVE SumSeq(_)
\* sum(deltas, timedelta())
SumSeq(s) == IF s = <<>> THEN 0 ELSE s[1] + SumSeq(Tail(s))

----------------------------------------------------------------------------
(* Event *)

\* The four fields dataclass equality compares.
Ev(e) ==
    [timestamp |-> e.timestamp, event_id |-> e.event_id,
     level |-> e.level, description |-> e.description]

\* list == list on lists of Events
EvSeq(s) == [i \in 1..Len(s) |-> Ev(s[i])]

\* datetime.year == 1970 for a UTC datetime (1970 has 365 days)
Is1970(ts) == ts >= 0 /\ ts < 31536000

----------------------------------------------------------------------------
(* _parse_timestamp *)

\* The table cell is a naive local time; replace(tzinfo=local_tz) reads it in
\* the configured zone and astimezone(utc) subtracts the zone's offset.
ParseTimestamp(cell, tz) == cell - tz

----------------------------------------------------------------------------
(* _fix_timestamp *)

\* deltas: the successive differences of the invalid group.  The group is a
\* list of positions of events (Python holds the objects themselves).
Deltas(events, group) ==
    [j \in 1..(Len(group) - 1) |->
        events[group[j + 1]].timestamp - events[group[j]].timestamp]

RECURSIVE Reassign(_, _, _, _, _)
\* for j, ev in enumerate(invalid_group[1:]): current_time += deltas[j];
\* ev.timestamp = current_time.  j is the 1-based position in deltas.
Reassign(events, group, deltas, j, current_time) ==
    IF j > Len(deltas) THEN events
    ELSE LET t == current_time + deltas[j]
         IN Reassign([events EXCEPT ![group[j + 1]].timestamp = t],
                     group, deltas, j + 1, t)

\* last_time without the one-second gap
LastTimeNoGap(ts) == ts

\* last_time = ts - timedelta(seconds=1)
LastTime(ts) == ts - 1

\* The body of "if invalid_group:" once a valid timestamp ts is met.
Reconstruct(events, group, ts) ==
    LET deltas == Deltas(events, group)
        total_delta == SumSeq(deltas)
        last_time == LastTime(ts)
        first_time == last_time - total_delta
    IN Reassign([events EXCEPT ![group[1]].timestamp = first_time],
                group, deltas, 1, first_time)

RECURSIVE Scan(_, _, _)
\* The while loop.  Returns the events and the invalid group left at its end.
Scan(events, i, group) ==
    IF i > Len(events) THEN [events |-> events, group |-> group]
    ELSE LET ts == events[i].timestamp
         IN IF ~Is1970(ts)
            THEN IF group # <<>>
                 THEN Scan(Reconstruct(events, group, ts), i + 1, <<>>)
                 ELSE Scan(events, i + 1, group)
            ELSE Scan(events, i + 1, Append(group, i))

\* list.remove(ev): drops the first element equal to ev
ListRemove(events, ev) ==
    IF \E p \in 1..Len(events) : Ev(events[p]) = Ev(ev)
    THEN LET p == CHOOSE p \in 1..Len(events) :
                     /\ Ev(events[p]) = Ev(ev)
                     /\ \A q \in 1..(p - 1) : Ev(events[q]) # Ev(ev)
         IN RemoveAt(events, p)
    ELSE events

RECURSIVE DropTrailing(_, _)
\* for ev in invalid_group: events.remove(ev)
DropTrailing(events, evs) ==
    IF evs = <<>> THEN events
    ELSE DropTrailing(ListRemove(events, evs[1]), Tail(evs))

\* _fix_timestamp without the final removal loop
FixTimestampKeepsTrailing(events) == Scan(events, 1, <<>>).events

RECURSIVE InsertByTime(_, _)
InsertByTime(sorted, e) ==
    IF sorted = <<>> THEN <<e>>
    ELSE IF e.timestamp < sorted[1].timestamp THEN <<e>> \o sorted
    ELSE <<sorted[1]>> \o InsertByTime(Tail(sorted), e)

RECURSIVE SortByTime(_)
SortByTime(s) ==
    IF s = <<>> THEN <<>>
    ELSE InsertByTime(SortByTime(SubSeq(s, 1, Len(s) - 1)), s[Len(s)])

\* _fix_timestamp followed by events.sort(key=timestamp)
FixTimestampSorted(events) ==
    LET s == Scan(events, 1, <<>>)
    IN SortByTime(DropTrailing(s.events,
                               [j \in 1..Len(s.group) |-> s.events[s.group[j]]]))

FixTimestamp(events) ==
    LET s == Scan(events, 1, <<>>)
    IN DropTrailing(s.events, [j \in 1..Len(s.group) |-> s.events[s.group[j]]])

----------------------------------------------------------------------------
(* Snapshot file: _save_snapshot, _load_snapshot *)

\* What is at the snapshot path, by kind:
\*   "missing"     nothing (Path.exists() is False)
\*   "unreadable"  something open(snapshot, "rb") cannot read
\*   "blank"       no bytes, or whitespace only
\*   "not_json"    bytes orjson.loads rejects
\*   "scalar"      a JSON number, true, false or null (not iterable in Python)
\*   "object"      a JSON object or string; data holds its keys / characters
\*   "array"       a JSON array; data holds its elements
\* orjson writes an aware UTC datetime as an ISO-8601 string; iso is the
\* instant that string denotes.
NoFile == [kind |-> "missing", data |-> <<>>]

\* orjson.dumps(tail, OPT_SERIALIZE_DATACLASS): one object per Event, the
\* four dataclass fields only.
Dumps(tail) ==
    [i \in 1..Len(tail) |->
        [timestamp |-> [iso |-> tail[i].timestamp],
         event_id |-> tail[i].event_id,
         level |-> tail[i].level,
         description |-> tail[i].description]]

\* Event(timestamp=datetime.fromisoformat(entry["timestamp"]), ...)
LoadEntry(entry) ==
    [timestamp |-> entry.timestamp.iso, event_id |-> entry.event_id,
     level |-> entry.level, description |-> entry.description]

\* The Event(...) construction of one element succeeds: the element is an
\* object with the four keys and its timestamp is an ISO-8601 string.
WellFormedEntry(entry) ==
    /\ {"timestamp", "event_id", "level", "description"} \subseteq DOMAIN entry
    /\ "iso" \in DOMAIN entry.timestamp

\* for entry in data: try: events.append(Event(...)) except Exception: continue
RECURSIVE LoadEntries(_)
LoadEntries(data) ==
    IF data = <<>> THEN <<>>
    ELSE (IF WellFormedEntry(data[1]) THEN <<LoadEntry(data[1])>> ELSE <<>>)
         \o LoadEntries(Tail(data))

Returned(events) == [raised |-> "", events |-> events]
Raised(exception) == [raised |-> exception, events |-> <<>>]

\* _load_snapshot, with the exception that escapes it (raised = "" when it
\* returns).  open() and the for statement stand outside every try block.
LoadSnapshotOutcome(file) ==
    IF file.kind = "missing" THEN Returned(<<>>)
    ELSE IF file.kind = "unreadable" THEN Raised("OSError")
    ELSE IF file.kind \in {"blank", "not_json"} THEN Returned(<<>>)
    ELSE IF file.kind = "scalar" THEN Raised("TypeError")
    ELSE Returned(LoadEntries(file.data))

\* The list _load_snapshot returns.
LoadSnapshot(file) == LoadSnapshotOutcome(file).events

\* tail = events[-sanpshot_size:] if len(events) >= sanpshot_size else events
SnapshotTail(events, size) ==
    IF Len(events) >= size THEN PyLast(events, size) ELSE events

\* The file _save_snapshot leaves behind.
SaveSnapshot(events, size) ==
    [kind |-> "array", data |-> Dumps(SnapshotTail(events, size))]

----------------------------------------------------------------------------
(* _logs_match, _find_new_entries *)

\* _logs_match returns False, "no_change", None or an index.  False is the
\* integer 0 wherever Python uses it as one, so it carries index 0.
MatchFalse == [kind |-> "False", index |-> 0]
MatchNoChange == [kind |-> "no_change", index |-> 0]
MatchNone == [kind |-> "None", index |-> 0]
MatchIndex(k) == [kind |-> "index", index |-> k]

\* eventsB[i : i + window] == eventsA[-window:]
WindowAt(eventsA, eventsB, window, i) ==
    EvSeq(PySlice(eventsB, i, window)) = EvSeq(PyLast(eventsA, window))

RECURSIVE MatchFrom(_, _, _, _)
\* for i in range(len(eventsB) - window + 1), from i on
MatchFrom(eventsA, eventsB, window, i) ==
    IF i >= Len(eventsB) - window + 1 THEN MatchNone
    ELSE IF WindowAt(eventsA, eventsB, window, i)
         THEN IF i + window = Len(eventsB)
              THEN MatchNoChange
              ELSE MatchIndex(i + window)
         ELSE MatchFrom(eventsA, eventsB, window, i + 1)

LogsMatch(eventsA, eventsB, window) ==
    IF Len(eventsB) < window THEN MatchFalse
    ELSE MatchFrom(eventsA, eventsB, window, 0)

\* _find_new_entries treating "no match" like "no change"
FindNewEntriesNoneIsEmpty(events, snapshot) ==
    LET match_index == LogsMatch(snapshot, events, Min(Window, Len(snapshot)))
    IN IF match_index.kind \in {"no_change", "None"} THEN <<>>
       ELSE PyFrom(events, match_index.index)

FindNewEntries(events, snapshot) ==
    LET match_index == LogsMatch(snapshot, events, Min(Window, Len(snapshot)))
    IN IF match_index.kind = "no_change" THEN <<>>
       ELSE IF match_index.kind = "None" THEN events
       ELSE PyFrom(events, match_index.index)

----------------------------------------------------------------------------
(* _parse_event_table, get_events *)

\* One Event per table row, then _fix_timestamp.  The modem's rows all have
\* four cells and are no header row.
ParseEventTable(rows, tz) ==
    FixTimestamp([i \in 1..Len(rows) |->
        [timestamp |-> ParseTimestamp(rows[i].dt, tz),
         event_id |-> rows[i].event_id,
         level |-> rows[i].level,
         description |-> rows[i].description,
         row |-> rows[i].row]])

\* get_events with the new entries written to the snapshot instead of the
\* fetched log
GetEventsSavesNew(rows, tz, file, delta) ==
    LET events == ParseEventTable(rows, tz)
        new == IF delta THEN FindNewEntries(events, LoadSnapshot(file)) ELSE events
    IN IF events # <<>>
       THEN [events |-> events, new |-> new, file |-> SaveSnapshot(new, sanpshot_size)]
       ELSE [events |-> events, new |-> <<>>, file |-> file]

\* get_events once the page is fetched: the list returned and the snapshot
\* file afterwards.  "if events:" is false for an empty list.
GetEvents(rows, tz, file, delta) ==
    LET events == ParseEventTable(rows, tz)
    IN IF events # <<>>
       THEN IF delta
            THEN [events |-> events,
                  new |-> FindNewEntries(events, LoadSnapshot(file)),
                  file |-> SaveSnapshot(events, sanpshot_size)]
            ELSE [events |-> events,
                  new |-> events,
                  file |-> SaveSnapshot(events, sanpshot_size)]
       ELSE [events |-> events, new |-> <<>>, file |-> file]

----------------------------------------------------------------------------
(* _parse_upstream_table, _parse_downstream_table, _parse_ds_ofdm_table,
   get_status, export_status *)

\* A value that is either Python's None or a list
None == [is_none |-> TRUE, items |-> <<>>]
List(items) == [is_none |-> FALSE, items |-> items]

\* Status before any get_status call
NoStatus == [us |-> None, ds |-> None, ds_ofdm |-> None]

\* One channel per row of the table, header rows skipped.  A page with no
\* table at the index gives None: "if table:" has no else branch.
ParseStatusTable(page, index) ==
    IF Len(page) > index
    THEN List(SelectSeq(page[index + 1], LAMBDA row : ~row.header))
    ELSE None

ParseUpstreamTable(page) == ParseStatusTable(page, 4)
ParseDownstreamTable(page) == ParseStatusTable(page, 0)
ParseDsOfdmTable(page) == ParseStatusTable(page, 2)

\* get_status once the page is fetched
GetStatus(page) ==
    [us |-> ParseUpstreamTable(page),
     ds |-> ParseDownstreamTable(page),
     ds_ofdm |-> ParseDsOfdmTable(page)]

\* The points one for loop of export_status writes
Points(measurement, channels) ==
    [i \in 1..Len(channels) |-> [measurement |-> measurement, id |-> channels[i].id]]

\* export_status: the points written, and the exception that escapes it
\* (raised = "" when it returns).  "for channel in None" raises TypeError.
ExportStatus(status) ==
    LET us == Points("arris_us_channel", status.us.items)
        ds == Points("arris_ds_channel", status.ds.items)
        ds_ofdm == Points("arris_ds_ofdm_stream", status.ds_ofdm.items)
    IN IF status.us.is_none THEN [raised |-> "TypeError", written |-> <<>>]
       ELSE IF status.ds.is_none THEN [raised |-> "TypeError", written |-> us]
       ELSE IF status.ds_ofdm.is_none THEN [raised |-> "TypeError", written |-> us \o ds]
       ELSE [raised |-> "", written |-> us \o ds \o ds_ofdm]

----------------------------------------------------------------------------
(* The modem and the poller *)

\* UTC offsets of the configured zone
TzOffsets == {0, 3600}

\* What the modem can log: the naive local time of the Date Time cell
\* (minute resolution), event id, level, description.  dt 0 is the
\* placeholder of an unsynchronised clock; 1735689600 is 2025-01-01 00:00.
ModemEntries ==
    { [dt |-> 1735689600, event_id |-> 82000200, level |-> 3, description |-> "T3 time-out"],
      [dt |-> 0, event_id |-> 82000200, level |-> 3, description |-> "T3 time-out"] }

\* The poller's own state before its first run; the modem's table is then
\* in any state.
SysInit ==
    /\ logged = 0
    /\ snapshotFile = NoFile
    /\ polls = 0
    /\ lastDelta = TRUE
    /\ lastEvents = <<>>
    /\ lastNew = <<>>
    /\ allDelta = TRUE
    /\ reportCount = [r \in 1..MaxRows |-> 0]
    /\ fetchedBefore = {}
    /\ lastStatus = NoStatus
    /\ lokiSink = <<>>
    /\ influxSink = <<>>
    /\ lastRun = [command |-> "none", fetch |-> "none", push |-> "none", outcome |-> "none"]

FnIdle ==
    /\ fn = "none"
    /\ arg_events = <<>>
    /\ arg_snapshot = <<>>
    /\ arg_size = 0
    /\ result = <<>>

\* Table row i of the modem, logging entry m
TableRow(m, i) ==
    [dt |-> m.dt, event_id |-> m.event_id, level |-> m.level,
     description |-> m.description, row |-> i]

Init ==
    /\ local_tz \in TzOffsets
    /\ \E n \in 0..LogCapacity :
          \E s \in [1..n -> ModemEntries] :
             /\ modemLog = [i \in 1..n |-> TableRow(s[i], i)]
             /\ nextRow = n + 1
    /\ statusPage = <<>>
    /\ SysInit
    /\ FnIdle

Rows(s) == {s[i].row : i \in DOMAIN s}

\* The modem logs one entry at the end of its table; a full table loses its
\* oldest row.
ModemLogs ==
    /\ logged < MaxAppend
    /\ logged' = logged + 1
    /\ \E m \in ModemEntries :
          LET r == TableRow(m, nextRow)
          IN modemLog' = IF Len(modemLog) >= LogCapacity
                         THEN Append(Tail(modemLog), r)
                         ELSE Append(modemLog, r)
    /\ nextRow' = nextRow + 1
    /\ UNCHANGED <<local_tz, snapshotFile, polls, lastDelta, lastEvents, lastNew,
                   allDelta, reportCount, fetchedBefore>>
    /\ UNCHANGED cmdVars
    /\ UNCHANGED fnVars

\* One run of the events command: get_events(snapshot, delta).
Poll ==
    /\ polls < MaxPolls
    /\ \E delta \in BOOLEAN :
          \E g \in {GetEvents(modemLog, local_tz, snapshotFile, delta)} :
             /\ snapshotFile' = g.file
             /\ lastEvents' = g.events
             /\ lastNew' = g.new
             /\ lastDelta' = delta
             /\ allDelta' = (allDelta /\ delta)
             /\ reportCount' =
                    [r \in 1..MaxRows |->
                        IF r \in Rows(g.new)
                        THEN Min(reportCount[r] + 1, 2)
                        ELSE reportCount[r]]
    /\ fetchedBefore' = fetchedBefore \cup Rows(lastEvents)
    /\ polls' = polls + 1
    /\ UNCHANGED <<local_tz, modemLog, nextRow, logged>>
    /\ UNCHANGED cmdVars
    /\ UNCHANGED fnVars

Next == ModemLogs \/ Poll

\* How _fetch_page can end: the page is returned; the connection fails or
\* times out; the login POST or the page GET is answered with an error
\* status; the login answer carries no CSRF token.
FetchOutcomes == {"ok", "network_error", "login_status", "no_csrf", "page_status"}

\* The exception that escapes _fetch_page ("" when it returns the page)
FetchPage(fetch) ==
    CASE fetch = "ok" -> ""
      [] fetch = "network_error" -> "TransportError"
      [] fetch \in {"login_status", "page_status"} -> "HTTPStatusError"
      [] fetch = "no_csrf" -> "RuntimeError"

\* The status command: get_status, then export_status when --influx-url is
\* given.
StatusCmd(page, fetch, influx) ==
    IF FetchPage(fetch) # ""
    THEN [outcome |-> "fetch_failed", status |-> NoStatus, written |-> <<>>]
    ELSE LET status == GetStatus(page)
             export == ExportStatus(status)
         IN IF ~influx
            THEN [outcome |-> "returned", status |-> status, written |-> <<>>]
            ELSE [outcome |-> IF export.raised = "" THEN "exported" ELSE "export_failed",
                  status |-> status,
                  written |-> export.written]

\* One run of the status command.
StatusCommand ==
    /\ polls < MaxPolls
    /\ \E fetch \in FetchOutcomes, influx \in BOOLEAN :
          \E c \in {StatusCmd(statusPage, fetch, influx)} :
             /\ lastStatus' = c.status
             /\ influxSink' = influxSink \o c.written
             /\ lastRun' = [command |-> "status", fetch |-> fetch, push |-> "none",
                            outcome |-> c.outcome]
    /\ polls' = polls + 1
    /\ UNCHANGED <<local_tz, modemLog, nextRow, logged, snapshotFile, lastDelta,
                   lastEvents, lastNew, allDelta, reportCount, fetchedBefore>>
    /\ UNCHANGED <<statusPage, lokiSink>>
    /\ UNCHANGED fnVars

\* What Loki answers to a push: 204, 400 (both taken as delivered by
\* export), an error status, no answer; "unset" when --loki-url is not given.
LokiAnswers == {"unset", "204", "400", "500", "network_error"}

\* export: the exception that escapes it ("" when it returns)
LokiExport(answer) ==
    CASE answer \in {"204", "400"} -> ""
      [] answer = "500" -> "HTTPStatusError"
      [] answer = "network_error" -> "TransportError"

\* The events command with a failed fetch taken as an empty page
EventsCmdEmptyPageOnFetchError(rows, tz, file, delta, fetch, loki) ==
    LET g == IF FetchPage(fetch) # ""
             THEN [events |-> <<>>, new |-> <<>>, file |-> file]
             ELSE GetEvents(rows, tz, file, delta)
    IN IF loki = "unset"
       THEN [outcome |-> "returned", events |-> g.events, new |-> g.new,
             file |-> g.file, handed |-> <<>>, push |-> "none"]
       ELSE [outcome |-> IF LokiExport(loki) = "" THEN "exported" ELSE "export_failed",
             events |-> g.events, new |-> g.new, file |-> g.file,
             handed |-> <<g.new>>, push |-> loki]

\* The events command: get_events, then export when --loki-url is given.
\* An exception of _fetch_page leaves get_events before anything is parsed,
\* loaded or saved, and leaves the command before export.
EventsCmd(rows, tz, file, delta, fetch, loki) ==
    IF FetchPage(fetch) # ""
    THEN [outcome |-> "fetch_failed", events |-> <<>>, new |-> <<>>, file |-> file,
          handed |-> <<>>, push |-> "none"]
    ELSE LET g == GetEvents(rows, tz, file, delta)
         IN IF loki = "unset"
            THEN [outcome |-> "returned", events |-> g.events, new |-> g.new,
                  file |-> g.file, handed |-> <<>>, push |-> "none"]
            ELSE [outcome |-> IF LokiExport(loki) = "" THEN "exported" ELSE "export_failed",
                  events |-> g.events, new |-> g.new, file |-> g.file,
                  handed |-> <<g.new>>, push |-> loki]

\* One run of the events command.
EventsCommand ==
    /\ polls < MaxPolls
    /\ \E delta \in BOOLEAN, fetch \in FetchOutcomes, loki \in LokiAnswers :
          \E c \in {EventsCmd(modemLog, local_tz, snapshotFile, delta, fetch, loki)} :
             /\ snapshotFile' = c.file
             /\ lastEvents' = c.events
             /\ lastNew' = c.new
             /\ lastDelta' = delta
             /\ lokiSink' = lokiSink \o c.handed
             /\ lastRun' = [command |-> "events", fetch |-> fetch, push |-> c.push,
                            outcome |-> c.outcome]
    /\ polls' = polls + 1
    /\ UNCHANGED <<local_tz, modemLog, nextRow, logged, allDelta, reportCount,
                   fetchedBefore>>
    /\ UNCHANGED <<statusPage, lastStatus, influxSink>>
    /\ UNCHANGED fnVars

\* Rows of a status table: the header row and the row of channel id
HeaderRow == [header |-> TRUE, id |-> 0]
ChannelRow(id) == [header |-> FALSE, id |-> id]

\* Tables of the status page: no rows, one channel, two channels
StatusTables ==
    { <<>>, <<HeaderRow, ChannelRow(1)>>, <<HeaderRow, ChannelRow(1), ChannelRow(2)>> }

\* The status poller alone, the modem serving any page of up to MaxTables
\* tables.
InitStatus ==
    /\ local_tz = 0
    /\ modemLog = <<>>
    /\ nextRow = 1
    /\ \E n \in 0..MaxTables : statusPage \in [1..n -> StatusTables]
    /\ SysInit
    /\ FnIdle

NextStatus == StatusCommand

SpecStatus == InitStatus /\ [][NextStatus]_vars

\* A status page with all its tables
FullStatusPage == [i \in 1..5 |-> <<HeaderRow, ChannelRow(1)>>]

\* The two commands run as cron runs them, against a modem whose event
\* table is in any state and does not change between the polls.
InitCmd ==
    /\ local_tz \in TzOffsets
    /\ \E n \in 0..LogCapacity :
          \E s \in [1..n -> ModemEntries] :
             /\ modemLog = [i \in 1..n |-> TableRow(s[i], i)]
             /\ nextRow = n + 1
    /\ statusPage = FullStatusPage
    /\ SysInit
    /\ FnIdle

NextCmd == EventsCommand \/ StatusCommand

SpecCmd == InitCmd /\ [][NextCmd]_vars

Spec == Init /\ [][Next]_vars

----------------------------------------------------------------------------
(* Harness: one call of a pure function on inputs drawn from bounded sets *)

SysIdle ==
    /\ local_tz = 0
    /\ modemLog = <<>>
    /\ nextRow = 1
    /\ statusPage = <<>>
    /\ SysInit

\* Events handed to _fix_timestamp: placeholders at 00:00, 00:01 and 00:03
\* of 1970-01-01, synchronised times at 2025-01-01 00:00 and 00:02.
FixEvents ==
    { [timestamp |-> t, event_id |-> 82000200, level |-> 3, description |-> "T3 time-out"] :
        t \in {0, 60, 180, 1735689600, 1735689720} }
    \cup
    { [timestamp |-> t, event_id |-> 84000500, level |-> 5, description |-> "MDD timeout"] :
        t \in {0, 1735689600} }

\* The Event object built from table row i
Tagged(e, i) ==
    [timestamp |-> e.timestamp, event_id |-> e.event_id, level |-> e.level,
     description |-> e.description, row |-> i]

InitFix ==
    /\ SysIdle
    /\ fn = "none"
    /\ \E n \in 0..MaxFixLen :
          \E s \in [1..n -> FixEvents] :
             arg_events = [i \in 1..n |-> Tagged(s[i], i)]
    /\ arg_snapshot = <<>>
    /\ arg_size = 0
    /\ result = <<>>

ApplyFix ==
    /\ fn = "none"
    /\ fn' = "fix"
    /\ result' = FixTimestamp(arg_events)
    /\ UNCHANGED <<sysVars, cmdVars, arg_events, arg_snapshot, arg_size>>

NextFix == ApplyFix

SpecFix == InitFix /\ [][NextFix]_vars

\* Events handed to _find_new_entries and _save_snapshot
DeltaEvents ==
    { [timestamp |-> 1735689600, event_id |-> 82000200, level |-> 3, description |-> "T3 time-out"],
      [timestamp |-> 1735689600, event_id |-> 84000500, level |-> 5, description |-> "MDD timeout"] }

InitDelta ==
    /\ SysIdle
    /\ fn = "none"
    /\ \E n \in 0..MaxFetchedLen : arg_events \in [1..n -> DeltaEvents]
    /\ \E n \in 0..MaxSnapshotLen : arg_snapshot \in [1..n -> DeltaEvents]
    /\ arg_size = 0
    /\ result = <<>>

ApplyFind ==
    /\ fn = "none"
    /\ fn' = "find"
    /\ result' = FindNewEntries(arg_events, arg_snapshot)
    /\ UNCHANGED <<sysVars, cmdVars, arg_events, arg_snapshot, arg_size>>

NextDelta == ApplyFind

SpecDelta == InitDelta /\ [][NextDelta]_vars

\* A 25-entry log of distinct events
Log25 ==
    [i \in 1..25 |->
        [timestamp |-> 1735689600 + 60 * i, event_id |-> 82000200, level |-> 3,
         description |-> "T3 time-out"]]

InitSave ==
    /\ SysIdle
    /\ fn = "none"
    /\ \/ /\ \E n \in 0..MaxSaveLen : arg_events \in [1..n -> DeltaEvents]
          /\ arg_size \in 0..MaxSaveCap
       \/ /\ arg_events = Log25
          /\ arg_size = sanpshot_size
    /\ arg_snapshot = <<>>
    /\ result = NoFile

ApplySave ==
    /\ fn = "none"
    /\ fn' = "save"
    /\ result' = SaveSnapshot(arg_events, arg_size)
    /\ UNCHANGED <<sysVars, cmdVars, arg_events, arg_snapshot, arg_size>>

NextSave == ApplySave

SpecSave == InitSave /\ [][NextSave]_vars

\* Elements of a JSON array at the snapshot path: the objects _save_snapshot
\* writes, an object without the timestamp key, an object whose timestamp is
\* no ISO-8601 string, and a number.
FileElements ==
    { Dumps(<<e>>)[1] : e \in DeltaEvents }
    \cup
    { [event_id |-> 82000200, level |-> 3, description |-> "T3 time-out"],
      [timestamp |-> [text |-> "yesterday"], event_id |-> 82000200, level |-> 3,
       description |-> "T3 time-out"],
      [number |-> 5] }

\* What can be at the snapshot path when _load_snapshot runs
SnapshotFiles ==
    { NoFile,
      [kind |-> "unreadable", data |-> <<>>],
      [kind |-> "blank", data |-> <<>>],
      [kind |-> "not_json", data |-> <<>>],
      [kind |-> "scalar", data |-> <<>>],
      [kind |-> "object", data |-> <<>>],
      [kind |-> "object", data |-> <<[key |-> "timestamp"], [key |-> "event_id"]>>] }
    \cup
    UNION { { [kind |-> "array", data |-> d] : d \in [1..n -> FileElements] } :
            n \in 0..MaxFileLen }

InitLoad ==
    /\ SysIdle
    /\ fn = "none"
    /\ arg_events = <<>>
    /\ arg_snapshot \in SnapshotFiles
    /\ arg_size = 0
    /\ result = Returned(<<>>)

ApplyLoad ==
    /\ fn = "none"
    /\ fn' = "load"
    /\ result' = LoadSnapshotOutcome(arg_snapshot)
    /\ UNCHANGED <<sysVars, cmdVars, arg_events, arg_snapshot, arg_size>>

NextLoad == ApplyLoad

SpecLoad == InitLoad /\ [][NextLoad]_vars

\* _parse_event_table on any table of up to LogCapacity rows, in each
\* configured zone.
InitParse ==
    /\ local_tz \in TzOffsets
    /\ modemLog = <<>>
    /\ nextRow = 1
    /\ statusPage = <<>>
    /\ SysInit
    /\ fn = "none"
    /\ \E n \in 0..LogCapacity :
          \E s \in [1..n -> ModemEntries] :
             arg_events = [i \in 1..n |-> TableRow(s[i], i)]
    /\ arg_snapshot = <<>>
    /\ arg_size = 0
    /\ result = <<>>

ApplyParse ==
    /\ fn = "none"
    /\ fn' = "parse"
    /\ result' = ParseEventTable(arg_events, local_tz)
    /\ UNCHANGED <<sysVars, cmdVars, arg_events, arg_snapshot, arg_size>>

NextParse == ApplyParse

SpecParse == InitParse /\ [][NextParse]_vars

----------------------------------------------------------------------------
(* Properties *)

\* The last n elements of s, for n <= Len(s)
LastN(s, n) == [i \in 1..n |-> s[Len(s) - n + i]]

\* The elements of s after its first n
After(s, n) == [i \in 1..(Len(s) - n) |-> s[n + i]]

\* C1: across delta polls of a log that only appends at its end and rolls
\* off its front, no entry is returned by more than one poll.
C1_NeverReReported ==
    allDelta => \A r \in 1..MaxRows : reportCount[r] <= 1

\* C2: across delta polls, every entry of the repaired fetched log that was
\* in no earlier fetched log is returned by the poll.
C2_NewNeverDropped ==
    (allDelta /\ polls > 0) =>
        \A r \in Rows(lastEvents) \ fetchedBefore : r \in Rows(lastNew)

----------------------------------------------------------------------------
(* Properties of _find_new_entries *)

\* The window _find_new_entries looks for: the last min(5, len) snapshot entries
SnapshotWindow(snapshot) == LastN(snapshot, Min(Window, Len(snapshot)))

\* win occupies positions i+1 .. i+Len(win) of log
OccursAt(log, win, i) ==
    /\ i + Len(win) <= Len(log)
    /\ \A k \in 1..Len(win) : Ev(log[i + k]) = Ev(win[k])

\* C4: whenever the snapshot window occurs in the fetched log followed by
\* further entries, the result is exactly the entries after that (last)
\* occurrence, whatever precedes it.
C4_ReturnsEntriesAfterWindow ==
    (fn = "find" /\ arg_snapshot # <<>>) =>
        LET win == SnapshotWindow(arg_snapshot)
            occ == {i \in 0..(Len(arg_events) - Len(win) - 1) :
                        OccursAt(arg_events, win, i)}
        IN occ # {} =>
              LET i == CHOOSE i \in occ : \A j \in occ : j <= i
              IN EvSeq(result) = EvSeq(After(arg_events, i + Len(win)))

\* C5: the result is empty whenever the fetched log ends with the snapshot
\* window, whatever the earlier part of the fetched log holds.
C5_EmptyWhenTailsAgree ==
    (fn = "find" /\ arg_snapshot # <<>>) =>
        LET win == SnapshotWindow(arg_snapshot)
        IN (/\ Len(arg_events) >= Len(win)
            /\ OccursAt(arg_events, win, Len(arg_events) - Len(win)))
           => result = <<>>

\* C6: the result is the entire fetched log whenever the snapshot window
\* occurs nowhere in it (a fetched log shorter than the window included),
\* and whenever the snapshot is empty.
C6_AllNewWhenNoMatch ==
    fn = "find" =>
        LET win == SnapshotWindow(arg_snapshot)
        IN /\ (/\ arg_snapshot # <<>>
               /\ \A i \in 0..(Len(arg_events) - Len(win)) :
                     ~OccursAt(arg_events, win, i))
              => result = arg_events
           /\ arg_snapshot = <<>> => result = arg_events

\* A full five-entry window that matches nowhere in a fetched log long
\* enough to hold it.
C6_Witness ==
    /\ fn = "find"
    /\ Len(arg_snapshot) > Window
    /\ Len(arg_events) > Window
    /\ \A i \in 0..(Len(arg_events) - Window) :
          ~OccursAt(arg_events, SnapshotWindow(arg_snapshot), i)
    /\ result = arg_events

----------------------------------------------------------------------------
(* Properties of _save_snapshot *)

C7_PersistsLastN_PositiveCap ==
    (fn = "save" /\ arg_size >= 1) =>
        /\ result.kind = "array"
        /\ LoadSnapshot(result)
             = EvSeq(LastN(arg_events, Min(Len(arg_events), arg_size)))
        /\ Len(result.data) <= arg_size

----------------------------------------------------------------------------
(* Properties of _fix_timestamp *)

\* Positions of the trailing invalid group: epoch entries after which no
\* valid entry follows
TrailingInvalid(log) ==
    {p \in 1..Len(log) : \A q \in p..Len(log) : Is1970(log[q].timestamp)}

\* C8: every entry of a trailing invalid group is absent from the output,
\* no other entry is removed, and no output entry has a year-1970 timestamp.
C8_TrailingGroupDropped ==
    fn = "fix" =>
        /\ Rows(result)
             = {arg_events[p].row : p \in (1..Len(arg_events)) \ TrailingInvalid(arg_events)}
        /\ Len(result) = Len(arg_events) - Cardinality(TrailingInvalid(arg_events))
        /\ \A k \in 1..Len(result) : ~Is1970(result[k].timestamp)

\* A log with a repaired group, a valid entry and a trailing group of two
\* equal entries.
C8_Witness ==
    /\ fn = "fix"
    /\ Len(arg_events) = 4
    /\ Is1970(arg_events[1].timestamp)
    /\ ~Is1970(arg_events[2].timestamp)
    /\ Is1970(arg_events[3].timestamp)
    /\ Ev(arg_events[3]) = Ev(arg_events[4])
    /\ Ev(arg_events[1]) = Ev(arg_events[4])
    /\ Len(result) = 2

\* Invalid groups followed by a valid entry: <<i, j>> with i..j a maximal
\* run of epoch entries and j+1 a valid entry
RepairedGroups(log) ==
    {g \in (1..Len(log)) \X (1..Len(log)) :
        /\ g[1] <= g[2]
        /\ g[2] < Len(log)
        /\ \A m \in g[1]..g[2] : Is1970(log[m].timestamp)
        /\ ~Is1970(log[g[2] + 1].timestamp)
        /\ g[1] > 1 => ~Is1970(log[g[1] - 1].timestamp)}

RECURSIVE TotalDelta(_, _, _)
\* Sum of the successive timestamp differences of log[i..j]
TotalDelta(log, i, j) ==
    IF i >= j THEN 0
    ELSE (log[i + 1].timestamp - log[i].timestamp) + TotalDelta(log, i + 1, j)

\* C9: a group of k >= 1 epoch entries followed by a valid entry at T is
\* repaired to start at T - 1 - total_delta and end at T - 1, consecutive
\* entries keeping their original difference.
C9_GroupAnchoredBeforeValid ==
    fn = "fix" =>
        \A g \in RepairedGroups(arg_events) :
            LET i == g[1]
                j == g[2]
                T == arg_events[j + 1].timestamp
            IN /\ j + 1 <= Len(result)
               /\ result[i].timestamp = T - 1 - TotalDelta(arg_events, i, j)
               /\ result[j].timestamp = T - 1
               /\ \A m \in i..(j - 1) :
                     result[m + 1].timestamp - result[m].timestamp
                       = arg_events[m + 1].timestamp - arg_events[m].timestamp

\* A group of three entries with unequal spacing, repaired.
C9_Witness ==
    /\ fn = "fix"
    /\ Len(arg_events) = 4
    /\ <<1, 3>> \in RepairedGroups(arg_events)
    /\ arg_events[2].timestamp - arg_events[1].timestamp = 60
    /\ arg_events[3].timestamp - arg_events[2].timestamp = 120
    /\ result[1].timestamp = arg_events[4].timestamp - 181

\* C10: a log without epoch entries is returned unchanged; on any log the
\* kept entries stay in order, keep event_id, level and description, and a
\* valid entry keeps its timestamp.
C10_FrameOfFixTimestamp ==
    fn = "fix" =>
        /\ (\A p \in 1..Len(arg_events) : ~Is1970(arg_events[p].timestamp))
              => result = arg_events
        /\ \A k \in 1..(Len(result) - 1) : result[k].row < result[k + 1].row
        /\ \A k \in 1..Len(result) :
              /\ result[k].row \in 1..Len(arg_events)
              /\ LET e == arg_events[result[k].row]
                 IN /\ result[k].event_id = e.event_id
                    /\ result[k].level = e.level
                    /\ result[k].description = e.description
                    /\ ~Is1970(e.timestamp) => result[k].timestamp = e.timestamp

\* A log of valid entries that are not in time order, and a log where a
\* valid entry stands between a repaired and a dropped epoch entry.
C10_Witness ==
    /\ fn = "fix"
    /\ Len(arg_events) = 4
    /\ \/ /\ \A p \in 1..4 : ~Is1970(arg_events[p].timestamp)
          /\ arg_events[1].timestamp > arg_events[2].timestamp
          /\ Len(result) = 4
       \/ /\ Is1970(arg_events[1].timestamp)
          /\ ~Is1970(arg_events[2].timestamp)
          /\ Is1970(arg_events[4].timestamp)
          /\ Len(result) = 3


----------------------------------------------------------------------------
(* Properties of _load_snapshot *)

\* The file is a JSON array whose elements are all well-formed event objects
WellFormedFile(file) ==
    /\ file.kind = "array"
    /\ \A i \in DOMAIN file.data : WellFormedEntry(file.data[i])

\* C11: _load_snapshot never fails, and it returns the empty list for every
\* snapshot file that is missing, unreadable, empty or malformed (not JSON, or
\* JSON that is not an array of well-formed event objects).
C11_LoadNeverFailsAndMalformedIsEmpty ==
    fn = "load" =>
        /\ result.raised = ""
        /\ ~WellFormedFile(arg_snapshot) => result.events = <<>>


----------------------------------------------------------------------------
(* Properties of the status command *)

\* The channel ids of the data rows of the table at index, oldest first
ChannelIds(page, index) ==
    LET data == SelectSeq(page[index + 1], LAMBDA row : ~row.header)
    IN [i \in 1..Len(data) |-> data[i].id]

\* The points of the section read from the table at index, none when the
\* page has no such table
SectionPoints(page, index, measurement) ==
    IF Len(page) <= index THEN <<>>
    ELSE [i \in 1..Len(ChannelIds(page, index)) |->
             [measurement |-> measurement, id |-> ChannelIds(page, index)[i]]]

SomeTableMissing(page) == Len(page) <= 4

\* C12: when the status page has no table at one of the indices 0, 2, 4,
\* get_status and the export_status that follows complete without error, the
\* missing section contributes no records and the sections whose tables are
\* present are exported.
C12_MissingTableIsNotFatal ==
    (/\ lastRun.command = "status"
     /\ lastRun.outcome \in {"exported", "export_failed"}
     /\ SomeTableMissing(statusPage))
    => /\ lastRun.outcome = "exported"
       /\ polls = 1 =>
             influxSink = SectionPoints(statusPage, 4, "arris_us_channel")
                          \o SectionPoints(statusPage, 0, "arris_ds_channel")
                          \o SectionPoints(statusPage, 2, "arris_ds_ofdm_stream")


----------------------------------------------------------------------------
(* Properties of the commands *)

\* C13: a poll whose device fetch fails (network error or timeout, an error
\* status to the login POST or the page GET, no CSRF token) ends in an error,
\* leaves the snapshot file as it was and hands nothing to Loki or InfluxDB.
C13_FetchFailureEmitsNothing ==
    [][(polls' = polls + 1 /\ lastRun'.fetch # "ok")
       => /\ lastRun'.outcome = "fetch_failed"
          /\ snapshotFile' = snapshotFile
          /\ lokiSink' = lokiSink
          /\ influxSink' = influxSink]_vars

\* A fetch failed after an earlier poll had written the snapshot and pushed
\* to Loki.
C13_Witness ==
    /\ lastRun.fetch \in FetchOutcomes \ {"ok"}
    /\ snapshotFile.kind = "array"
    /\ lokiSink # <<>>

\* Loki's answers that leave the pushed entries undelivered
PushLost == {"400", "500", "network_error"}

\* C15: the entries returned by an events poll whose Loki push failed or was
\* answered with 400 are not returned again by the next delta poll of the
\* same log.
C15_FailedPushNotReturnedAgain ==
    [][(/\ polls' = polls + 1
        /\ lastRun.command = "events"
        /\ lastRun.push \in PushLost
        /\ lastRun'.command = "events"
        /\ lastRun'.fetch = "ok"
        /\ lastDelta'
        /\ modemLog' = modemLog)
       => Rows(lastNew) \cap Rows(lastNew') = {}]_vars

\* The snapshot is written before the push and a lost push does not undo it:
\* after such a poll the file holds the tail of the fetched log.
C15_SnapshotWrittenBeforePush ==
    (lastRun.command = "events" /\ lastRun.push \in PushLost /\ lastEvents # <<>>)
    => snapshotFile = SaveSnapshot(lastEvents, sanpshot_size)


----------------------------------------------------------------------------
(* Properties of _parse_timestamp with _fix_timestamp *)

\* The naive time of the Date Time cell lies in year 1970
EmittedIn1970(dt) == dt >= 0 /\ dt < 365 * 86400

\* C14: in every configured zone _fix_timestamp takes an entry for an epoch
\* placeholder exactly when the time the modem emitted lies in 1970: a row
\* emitted in 1970 is never left in the log as a valid entry with its parsed
\* time, and a row emitted with a real time stays with its parsed time.
C14_PlaceholderIffEmittedIn1970 ==
    fn = "parse" =>
        \A i \in DOMAIN arg_events :
            LET parsed == [row |-> arg_events[i].row,
                           timestamp |-> ParseTimestamp(arg_events[i].dt, local_tz)]
                kept == \E j \in DOMAIN result :
                            /\ result[j].row = parsed.row
                            /\ result[j].timestamp = parsed.timestamp
            IN EmittedIn1970(arg_events[i].dt) <=> ~kept

============================================================================
